---- MODULE Spec2Model ----
(***************************************************************************)
(* A model of the session handle of AxumSessions (src/src/session.rs):     *)
(* identifier resolution and issuance (AxumSession::new, generate_uuid)    *)
(* and the handle operations that read and write one AxumSessionData of    *)
(* the in-memory store (tap, get, get_remove, set, remove, clear, renew,   *)
(* destroy, set_longterm, set_store).                                      *)
(*                                                                         *)
(* tap is declared `async fn` and none of its callers awaits it.  renew,   *)
(* destroy, set_longterm, set_store, set and remove call it as a           *)
(* statement: the future it returns is dropped without being polled, so    *)
(* the closure never runs and the store is left as it was.  get and        *)
(* get_remove return tap's future where an Option<T> is required: rustc    *)
(* rejects both functions (E0308), so they have no behaviour and the model *)
(* has no step for them.  Their closures are well-defined code and are     *)
(* kept as operators on a Record: GetClosure is what a get would read.     *)
(* clear and count do not go through tap.                                  *)
(*                                                                         *)
(* Values are strings: "i64:1" is the integer 1, "f64:inf" a non-finite    *)
(* float, "unser" a value whose Serialize implementation fails.  An        *)
(* Option is a sequence of length at most one: <<>> is None, <<v>> is      *)
(* Some(v).  A map is a function whose DOMAIN is the set of its keys.      *)
(***************************************************************************)
EXTENDS Naturals, Sequences, FiniteSets, TLC

\* The handle operations one run performs in total.
MaxOps == 2

\* Request-handling tasks, each constructing one handle.
Tasks == {"t1", "t2"}

\* The identifiers Uuid::new_v4 can draw, in their string form.
IDs == {"u1", "u2"}

\* What the identifier cookie of a request can hold: no cookie, a value
\* that is no UUID, or the string form of a UUID.
NoCookie == "<none>"
Cookies == {NoCookie, "garbage"} \cup IDs

\* Keys of the data map, values handed to set, and types a get can ask for.
Keys == {"x", "y"}
Values == {"i64:1", "i64:2", "f64:inf", "unser"}
Types == {"i64", "f64", "String"}

None == <<>>
Some(v) == <<v>>

VARIABLES
    inner,       \* store.inner: identifier string -> AxumSessionData
    persistent,  \* store.client is Some
    db,          \* identifiers that have a row in the backend table
    pc,          \* where each task stands
    id,          \* the identifier each task's handle is bound to
    src,         \* how that identifier was resolved: "cookie" or "issued"
    token,       \* generate_uuid's current candidate
    ans,         \* the backend's answer to the pending exists() query
    ret,         \* the last handle operation performed and what it returned
    lastw,       \* per identifier and key: the last call made on the key
    snap,        \* per loaded or flushed identifier: the Record's fields as
                 \* last committed
    nops,        \* handle operations performed so far
    seen,        \* per task: the identifiers resident when generate_uuid
                 \* tested the candidate it went on with
    did,         \* per task: the key and value of its last set
    cookie,      \* per task: what the identifier cookie of its request held
    rows         \* per task: the backend's answer to its count() query

vars == <<inner, persistent, db, pc, id, src, token, ans, ret, lastw, snap,
          nops, seen, did, cookie, rows>>

issueVars == <<pc, id, src, token, ans, seen, cookie, rows>>

NoId == "<unbound>"
NoRet == [id |-> "", op |-> "none", key |-> "", arg |-> "", res |-> None]
NoWrite == [kind |-> "none", val |-> ""]
NoSet == [key |-> "", val |-> ""]

(***************************************************************************)
(* serde_json                                                              *)
(***************************************************************************)

\* serde_json::to_string(&value): Ok(json) or Err.  A non-finite float is
\* written as null.
to_string(v) ==
    CASE v = "i64:1" -> Some("1")
      [] v = "i64:2" -> Some("2")
      [] v = "f64:1" -> Some("1.0")
      [] v = "f64:2" -> Some("2.0")
      [] v = "f64:inf" -> Some("null")
      [] OTHER -> None

\* serde_json::from_str::<T>(string).ok()
from_str(string, T) ==
    CASE T = "i64" /\ string = "1" -> Some("i64:1")
      [] T = "i64" /\ string = "2" -> Some("i64:2")
      [] T = "f64" /\ string \in {"1", "1.0"} -> Some("f64:1")
      [] T = "f64" /\ string \in {"2", "2.0"} -> Some("f64:2")
      [] OTHER -> None

\* set's first statement: to_string(&value).unwrap_or_else(|_| "".to_string())
SerializeOrEmpty(v) ==
    LET r == to_string(v) IN IF r = None THEN "" ELSE r[1]

TypeOf(v) == IF v \in {"i64:1", "i64:2"} THEN "i64" ELSE "f64"

(***************************************************************************)
(* The Record (AxumSessionData) and the maps                               *)
(***************************************************************************)

\* HashMap::get
MapGet(m, k) == IF k \in DOMAIN m THEN Some(m[k]) ELSE None

\* HashMap::insert
MapInsert(m, k, s) == [j \in DOMAIN m \cup {k} |-> IF j = k THEN s ELSE m[j]]

\* HashMap::remove (the map that is left)
MapRemove(m, k) == [j \in DOMAIN m \ {k} |-> m[j]]

EmptyMap == [j \in {} |-> ""]

\* The Record the request pipeline inserts for an identifier that is not
\* resident: empty, storable, and dirty until its first flush.
NewRecord(i) ==
    [id |-> i, data |-> EmptyMap, renew |-> FALSE, destroy |-> FALSE,
     longterm |-> FALSE, storable |-> TRUE, update |-> TRUE]

\* The fields of a Record other than the dirty flag.
Fields(r) == [r EXCEPT !.update = FALSE]

(***************************************************************************)
(* The closures the handle operations hand to tap                          *)
(***************************************************************************)

\* get's closure: sess.data.get(key)?, then from_str(string).ok()
GetClosure(sess, key, T) ==
    LET string == MapGet(sess.data, key)
    IN IF string = None THEN None ELSE from_str(string[1], T)

\* set: insert and mark dirty unless the stored string is the same
SetClosure(sess, key, value) ==
    IF MapGet(sess.data, key) # Some(value)
    THEN [sess EXCEPT !.data = MapInsert(@, key, value), !.update = TRUE]
    ELSE sess

\* remove: mark dirty, then remove the key
RemoveClosure(sess, key) ==
    [sess EXCEPT !.update = TRUE, !.data = MapRemove(@, key)]

\* A clear that empties the data and does not mark the Record dirty.
ClearBodyNoDirty(sess) == [sess EXCEPT !.data = EmptyMap]

\* A clear that marks the Record dirty and leaves the data.
ClearBodyKeep(sess) == [sess EXCEPT !.update = TRUE]

\* clear's body under the guard: data.clear(), update = true
ClearBody(sess) == [sess EXCEPT !.data = EmptyMap, !.update = TRUE]

RenewClosure(sess) == [sess EXCEPT !.renew = TRUE, !.update = TRUE]

DestroyClosure(sess) == [sess EXCEPT !.destroy = TRUE, !.update = TRUE]

SetLongtermClosure(sess, longterm) ==
    [sess EXCEPT !.longterm = longterm, !.update = TRUE]

SetStoreClosure(sess, storable) ==
    [sess EXCEPT !.storable = storable, !.update = TRUE]

\* store.inner.contains_key
ContainsKey(i) == i \in DOMAIN inner

\* tap's body, were its future polled: run the closure on the Record under
\* get_mut's guard; sess is the Record the closure leaves.  Without a Record
\* the store is left alone.  No caller polls it.
Tap(i, sess) ==
    IF ContainsKey(i) THEN inner' = [inner EXCEPT ![i] = sess]
    ELSE UNCHANGED inner

\* tap called as a statement, `self.tap(..);`: the future is made and
\* dropped unpolled.  The closure that would have left sess never runs.
TapDropped(i, sess) == UNCHANGED inner

\* tap's value: the closure's, or None when the Record is missing
TapOut(i, out) == IF ContainsKey(i) THEN out ELSE None

\* Bookkeeping: the last call made on key k of identifier i.
Wrote(i, ks, w) ==
    IF ContainsKey(i)
    THEN lastw' = [lastw EXCEPT ![i] = [k \in Keys |-> IF k \in ks THEN w ELSE @[k]]]
    ELSE UNCHANGED lastw

\* The tasks whose count() awaits the backend.
InFlight == {u \in Tasks : pc[u] \in {"counting", "counted"}}

\* A task holds a handle and the run has operations left.
Ready(t) == pc[t] = "ready" /\ nops + Cardinality(InFlight) < MaxOps

\* An operation of task t returns: what it was (its name, key and other
\* argument) and what it returned are kept.
Done(t, op, key, arg, res) ==
    /\ ret' = [id |-> id[t], op |-> op, key |-> key, arg |-> arg, res |-> res]
    /\ nops' = nops + 1
    /\ did' = IF op = "set" THEN [did EXCEPT ![t] = [key |-> key, val |-> arg]]
              ELSE did
    /\ UNCHANGED <<persistent, db, issueVars, snap>>

(***************************************************************************)
(* The handle operations                                                   *)
(***************************************************************************)

Set(t, key, v) ==
    /\ Ready(t)
    /\ TapDropped(id[t], SetClosure(inner[id[t]], key, SerializeOrEmpty(v)))
    /\ Wrote(id[t], {key}, [kind |-> "set", val |-> v])
    /\ Done(t, "set", key, v, None)

Remove(t, key) ==
    /\ Ready(t)
    /\ TapDropped(id[t], RemoveClosure(inner[id[t]], key))
    /\ Wrote(id[t], {key}, [kind |-> "remove", val |-> ""])
    /\ Done(t, "remove", key, "", None)

\* A clear that empties every resident Record.
ClearStoreAll(i) ==
    IF ContainsKey(i) THEN inner' = [j \in DOMAIN inner |-> ClearBody(inner[j])]
    ELSE UNCHANGED inner

\* clear looks the Record up itself, with get_mut, and runs its body under
\* the guard; without a Record the store is left alone (a warning is logged).
ClearStore(i) ==
    IF ContainsKey(i) THEN inner' = [inner EXCEPT ![i] = ClearBody(inner[i])]
    ELSE UNCHANGED inner

Clear(t) ==
    /\ Ready(t)
    /\ ClearStore(id[t])
    /\ Wrote(id[t], Keys, [kind |-> "clear", val |-> ""])
    /\ Done(t, "clear", "", "", None)

Renew(t) ==
    /\ Ready(t)
    /\ TapDropped(id[t], RenewClosure(inner[id[t]]))
    /\ UNCHANGED lastw
    /\ Done(t, "renew", "", "", None)

Destroy(t) ==
    /\ Ready(t)
    /\ TapDropped(id[t], DestroyClosure(inner[id[t]]))
    /\ UNCHANGED lastw
    /\ Done(t, "destroy", "", "", None)

SetLongterm(t, b) ==
    /\ Ready(t)
    /\ TapDropped(id[t], SetLongtermClosure(inner[id[t]], b))
    /\ UNCHANGED lastw
    /\ Done(t, "set_longterm", "", IF b THEN "true" ELSE "false", None)

SetStore(t, b) ==
    /\ Ready(t)
    /\ TapDropped(id[t], SetStoreClosure(inner[id[t]], b))
    /\ UNCHANGED lastw
    /\ Done(t, "set_store", "", IF b THEN "true" ELSE "false", None)

\* store.is_persistent()
IsPersistent == persistent

\* store.count(): the backend's row count, or an error
StoreCount(ok) == IF ok THEN Some(Cardinality(db)) ELSE None

\* A count that always answers from the in-memory store.
CountValueMemory(r) == Cardinality(DOMAIN inner)

\* .unwrap_or(0i64) on the backend's answer
CountValue(r) == IF r = None THEN 0 ELSE r[1]

\* count is called.  With a backend it awaits store.count(); without, it
\* returns the number of resident Records at once.
Count(t) ==
    /\ Ready(t)
    /\ IF IsPersistent
       THEN /\ pc' = [pc EXCEPT ![t] = "counting"]
            /\ UNCHANGED <<ret, nops, did, persistent, db, id, src, token, ans,
                           seen, cookie, rows, snap>>
       ELSE Done(t, "count", "", "memory", Some(Cardinality(DOMAIN inner)))
    /\ UNCHANGED <<inner, lastw>>

\* The backend runs the count query of task t, or fails.
CountAnswer(t, ok) ==
    /\ pc[t] = "counting"
    /\ pc' = [pc EXCEPT ![t] = "counted"]
    /\ rows' = [rows EXCEPT ![t] = StoreCount(ok)]
    /\ UNCHANGED <<inner, persistent, db, id, src, token, ans, ret, lastw, snap,
                   nops, seen, did, cookie>>

\* count resumes with the answer and returns.
CountResume(t) ==
    /\ pc[t] = "counted"
    /\ pc' = [pc EXCEPT ![t] = "ready"]
    /\ rows' = [rows EXCEPT ![t] = None]
    /\ ret' = [id |-> id[t], op |-> "count", key |-> "",
               arg |-> IF rows[t] = None THEN "backend-err" ELSE "backend",
               res |-> Some(CountValue(rows[t]))]
    /\ nops' = nops + 1
    /\ UNCHANGED <<inner, persistent, db, id, src, token, ans, lastw, snap,
                   seen, did, cookie>>

(***************************************************************************)
(* Identifier resolution and issuance                                      *)
(***************************************************************************)

\* A resolution that ignores the cookie and always issues.
CookieUuidNever(c) == None

\* new: get_cookie(..).and_then(|c| Uuid::parse_str(c.value()).ok())
CookieUuid(c) == IF c \in IDs THEN Some(c) ELSE None

\* An issuer that takes every candidate for resident.
MemTakenAlways(tok) == TRUE

\* An issuer that never looks at the in-memory store.
MemTakenNever(tok) == FALSE

\* generate_uuid's first test of a candidate: it is skipped when the
\* in-memory store holds it.
MemTaken(tok) == ContainsKey(tok)

\* An issuer that takes a failed query for "no such row"
\* (unwrap_or(false)).
ExistsOutcomeSwallow(a) ==
    CASE a = "true" -> "retry"
      [] OTHER -> "return"

\* What generate_uuid does with the answer of exists(): unwrap() panics on
\* an error, true draws another candidate, false returns this one.
ExistsOutcome(a) ==
    CASE a = "err" -> "panic"
      [] a = "true" -> "retry"
      [] OTHER -> "return"

\* An issuer that reserves the identifier it returns by writing its row.
IssueEffectStore(tok) == db' = db \cup {tok} /\ UNCHANGED inner

\* What returning tok does to the store and the backend: generate_uuid
\* calls no insert and no store.
IssueEffect(tok) == UNCHANGED <<inner, db>>

\* generate_uuid returns tok to new, which binds the handle to it.
Issue(t, tok) ==
    /\ IssueEffect(tok)
    /\ id' = [id EXCEPT ![t] = tok]
    /\ src' = [src EXCEPT ![t] = "issued"]
    /\ pc' = [pc EXCEPT ![t] = "ready"]
    /\ token' = [token EXCEPT ![t] = NoId]
    /\ ans' = [ans EXCEPT ![t] = ""]

\* AxumSession::new for a request whose identifier cookie holds c.
New(t, c) ==
    /\ pc[t] = "idle"
    /\ IF CookieUuid(c) # None
       THEN /\ id' = [id EXCEPT ![t] = CookieUuid(c)[1]]
            /\ src' = [src EXCEPT ![t] = "cookie"]
            /\ pc' = [pc EXCEPT ![t] = "ready"]
       ELSE /\ pc' = [pc EXCEPT ![t] = "gen"]
            /\ UNCHANGED <<id, src>>
    /\ cookie' = [cookie EXCEPT ![t] = c]
    /\ UNCHANGED <<inner, persistent, db, token, ans, ret, lastw, snap, nops,
                   seen, did, rows>>

\* One turn of generate_uuid's loop: draw a candidate and test the in-memory
\* store.  A resident candidate is dropped and the loop turns again.  One
\* that is not resident goes on to the exists() query when there is a
\* backend client and to the return when there is none.  The store is
\* shared with the other request threads and the test holds no lock past
\* contains_key, so what follows the test is a step of its own.
GenCandidate(t, tok) ==
    /\ pc[t] = "gen"
    /\ IF MemTaken(tok)
       THEN UNCHANGED <<issueVars, inner, db>>
       ELSE /\ pc' = [pc EXCEPT ![t] = IF persistent THEN "exists" ELSE "passed"]
            /\ token' = [token EXCEPT ![t] = tok]
            /\ seen' = [seen EXCEPT ![t] = DOMAIN inner]
            /\ UNCHANGED <<id, src, ans, cookie, rows, inner, db>>
    /\ UNCHANGED <<persistent, ret, lastw, snap, nops, did>>

\* Without a backend client, generate_uuid returns the candidate that
\* passed the test of the in-memory store.
ReturnCandidate(t) ==
    /\ pc[t] = "passed"
    /\ Issue(t, token[t])
    /\ UNCHANGED <<persistent, ret, lastw, snap, nops, seen, did, cookie, rows>>

\* The backend runs the exists() query of task t, or fails.
ExistsAnswer(t, ok) ==
    /\ pc[t] = "exists"
    /\ pc' = [pc EXCEPT ![t] = "answered"]
    /\ ans' = [ans EXCEPT ![t] =
                 IF ~ok THEN "err" ELSE IF token[t] \in db THEN "true" ELSE "false"]
    /\ UNCHANGED <<inner, persistent, db, id, src, token, ret, lastw, snap, nops,
                   seen, did, cookie, rows>>

\* generate_uuid resumes with the answer.
ExistsResume(t) ==
    /\ pc[t] = "answered"
    /\ CASE ExistsOutcome(ans[t]) = "panic" ->
              /\ pc' = [pc EXCEPT ![t] = "panicked"]
              /\ token' = [token EXCEPT ![t] = NoId]
              /\ ans' = [ans EXCEPT ![t] = ""]
              /\ UNCHANGED <<id, src, inner, db>>
         [] ExistsOutcome(ans[t]) = "retry" ->
              /\ pc' = [pc EXCEPT ![t] = "gen"]
              /\ token' = [token EXCEPT ![t] = NoId]
              /\ ans' = [ans EXCEPT ![t] = ""]
              /\ UNCHANGED <<id, src, inner, db>>
         [] OTHER -> Issue(t, token[t])
    /\ UNCHANGED <<persistent, ret, lastw, snap, nops, seen, did, cookie, rows>>

(***************************************************************************)
(* The request pipeline around the handle (not part of session.rs)         *)
(***************************************************************************)

\* The data map of a row that an earlier run wrote: x is the integer 1.
StoredData == [k \in {"x"} |-> "1"]

\* The Record loaded from a backend row: clean, equal to what was committed.
LoadedRecord(i) ==
    [id |-> i, data |-> StoredData, renew |-> FALSE, destroy |-> FALSE,
     longterm |-> FALSE, storable |-> TRUE, update |-> FALSE]

MapPut(m, i, r) == [j \in DOMAIN m \cup {i} |-> IF j = i THEN r ELSE m[j]]

\* The pipeline makes the Record of the handle's identifier resident when it
\* is not: loaded from the backend's row if there is one, new otherwise.
Insert(t) ==
    /\ pc[t] = "ready"
    /\ ~ContainsKey(id[t])
    /\ IF persistent /\ id[t] \in db
       THEN /\ inner' = MapPut(inner, id[t], LoadedRecord(id[t]))
            /\ snap' = MapPut(snap, id[t], Fields(LoadedRecord(id[t])))
       ELSE /\ inner' = MapPut(inner, id[t], NewRecord(id[t]))
            /\ UNCHANGED snap
    /\ lastw' = [lastw EXCEPT ![id[t]] = [k \in Keys |-> NoWrite]]
    /\ UNCHANGED <<persistent, db, issueVars, ret, nops, did>>

\* A flush commits a dirty Record that is neither destroyed nor renewed:
\* the dirty flag is cleared and, with a backend and a storable Record, the
\* row is written.
Flush(i) ==
    /\ ContainsKey(i)
    /\ inner[i].update /\ ~inner[i].destroy /\ ~inner[i].renew
    /\ inner' = [inner EXCEPT ![i].update = FALSE]
    /\ snap' = MapPut(snap, i, Fields(inner[i]))
    /\ db' = IF persistent /\ inner[i].storable THEN db \cup {i} ELSE db
    /\ UNCHANGED <<persistent, issueVars, ret, lastw, nops, did>>

(***************************************************************************)
(* The specification                                                       *)
(***************************************************************************)

\* The store as constructed: no Record is resident.
InitStore ==
    /\ inner = [j \in {} |-> NewRecord(j)]
    /\ snap = [j \in {} |-> NewRecord(j)]
    /\ ret = NoRet
    /\ lastw = [i \in IDs |-> [k \in Keys |-> NoWrite]]
    /\ nops = 0
    /\ seen = [t \in Tasks |-> {}]
    /\ did = [t \in Tasks |-> NoSet]

\* Requests arrive: no handle is constructed yet.  A backend is configured
\* or not, and its table holds whatever rows earlier runs left.
Init ==
    /\ InitStore
    /\ persistent \in BOOLEAN
    /\ db \in IF persistent THEN SUBSET IDs ELSE {{}}
    /\ pc = [t \in Tasks |-> "idle"]
    /\ id = [t \in Tasks |-> NoId]
    /\ src = [t \in Tasks |-> "none"]
    /\ token = [t \in Tasks |-> NoId]
    /\ ans = [t \in Tasks |-> ""]
    /\ cookie = [t \in Tasks |-> NoCookie]
    /\ rows = [t \in Tasks |-> None]

\* Every task has constructed its handle from a cookie that holds an
\* identifier (new's Some(v) arm): the first task's holds u1, the second's
\* the same identifier or the other one.  A configured backend holds a row
\* for u1 and none for u2.
InitBound ==
    /\ InitStore
    /\ persistent \in BOOLEAN
    /\ db = IF persistent THEN {"u1"} ELSE {}
    /\ pc = [t \in Tasks |-> "ready"]
    /\ id \in {f \in [Tasks -> IDs] : f["t1"] = "u1"}
    /\ src = [t \in Tasks |-> "cookie"]
    /\ token = [t \in Tasks |-> NoId]
    /\ ans = [t \in Tasks |-> ""]
    /\ cookie = id
    /\ rows = [t \in Tasks |-> None]

\* Identifier resolution and issuance, with the pipeline's inserts and
\* flushes.
NextIssue ==
    \/ \E t \in Tasks, c \in Cookies : New(t, c)
    \/ \E t \in Tasks, tok \in IDs : GenCandidate(t, tok)
    \/ \E t \in Tasks : ReturnCandidate(t)
    \/ \E t \in Tasks, ok \in BOOLEAN : ExistsAnswer(t, ok)
    \/ \E t \in Tasks : ExistsResume(t)
    \/ \E t \in Tasks : Insert(t)
    \/ \E i \in IDs : Flush(i)

\* The operations of constructed handles, with the pipeline's inserts and
\* flushes.
Next ==
    \/ \E t \in Tasks : Insert(t)
    \/ \E i \in IDs : Flush(i)
    \/ \E t \in Tasks, k \in Keys, v \in Values : Set(t, k, v)
    \/ \E t \in Tasks, k \in Keys : Remove(t, k)
    \/ \E t \in Tasks : Clear(t)
    \/ \E t \in Tasks : Renew(t)
    \/ \E t \in Tasks : Destroy(t)
    \/ \E t \in Tasks, b \in BOOLEAN : SetLongterm(t, b)
    \/ \E t \in Tasks, b \in BOOLEAN : SetStore(t, b)
    \/ \E t \in Tasks : Count(t)
    \/ \E t \in Tasks, ok \in BOOLEAN : CountAnswer(t, ok)
    \/ \E t \in Tasks : CountResume(t)

\* Handle operations on constructed handles.
Spec == InitBound /\ [][Next]_vars

\* Handle construction: identifier resolution and issuance.
SpecIssue == Init /\ [][NextIssue]_vars

\* Scheduling of the issuance loop.  Uuid::new_v4 draws every identifier
\* with positive probability at each pass, so a candidate that can be drawn
\* at infinitely many passes is drawn (strong fairness per candidate); the
\* backend answers a pending exists() query, with a row test or an error;
\* the executor polls a task whose query was answered; a thread that has
\* tested its candidate goes on to return it.
IssueFairness ==
    \A t \in Tasks :
        /\ \A tok \in IDs : SF_vars(GenCandidate(t, tok))
        /\ WF_vars(ReturnCandidate(t))
        /\ WF_vars(\E ok \in BOOLEAN : ExistsAnswer(t, ok))
        /\ WF_vars(ExistsResume(t))

\* Handle construction under that scheduling.
SpecIssueFair == Init /\ [][NextIssue]_vars /\ IssueFairness

(***************************************************************************)
(* Properties                                                              *)
(***************************************************************************)

\* This step is the handle operation op: it is the operation ret' describes.
OpStep(op) == nops' = nops + 1 /\ ret'.op = op

\* C1: with a Record resident, a get of k after set(k, v) returns v, for
\* every serializable v.  get's closure returns what the string stored
\* under k deserializes to, so right after the set that string must
\* deserialize, at v's type, to v.
C1_SetGetAnySerializable ==
    [][(OpStep("set") /\ ContainsKey(ret'.id) /\ to_string(ret'.arg) # None) =>
          GetClosure(inner'[ret'.id], ret'.key, TypeOf(ret'.arg))
              = Some(ret'.arg)]_vars

\* Task t's generate_uuid returns in this step.
Returns(t) == pc[t] \in {"passed", "answered"} /\ pc'[t] = "ready"

\* Task t's generate_uuid goes on with a candidate in this step: the
\* candidate passed the test of the in-memory store.
PassesMemory(t) == pc[t] = "gen" /\ pc'[t] \in {"exists", "passed"}

\* C2 as stated: at the moment generate_uuid returns an identifier, no Record
\* of it is resident and the backend has no row of it.
C2_FreeAtReturn ==
    [][\A t \in Tasks :
         Returns(t) => /\ id'[t] \notin DOMAIN inner
                       /\ id'[t] \notin db]_vars

\* C2 amended: the identifier generate_uuid returns is the candidate that
\* was not resident when the call tested it with contains_key and, with a
\* backend, of which the backend had no row when it answered the call's
\* exists() query.  The call reserves nothing: what is inserted or stored
\* between a test and the return is not seen, with or without a backend.
C2_FreeWhenTested ==
    [][\A t \in Tasks :
         /\ PassesMemory(t) =>
               /\ token'[t] \notin DOMAIN inner
               /\ seen'[t] = DOMAIN inner
         /\ (pc[t] = "exists" /\ pc'[t] = "answered" /\ ans'[t] = "false") =>
               token[t] \notin db
         /\ Returns(t) =>
               /\ id'[t] = token[t]
               /\ id'[t] \notin seen[t]
               /\ persistent => ans[t] = "false"]_vars

\* With a backend that holds rows and a store that holds Records, an
\* issuance has returned an identifier that is free in both.
C2_Witness ==
    \E t \in Tasks :
        /\ src[t] = "issued" /\ persistent
        /\ db # {} /\ DOMAIN inner # {}
        /\ id[t] \notin db /\ id[t] \notin DOMAIN inner

\* C3 as stated: any two generate_uuid calls return different identifiers.
C3_AllDistinct ==
    \A t, u \in Tasks :
        (t # u /\ src[t] = "issued" /\ src[u] = "issued") => id[t] # id[u]

\* C3 amended: a generate_uuid call returns an identifier different from
\* every identifier that was resident when the call tested its candidate; two
\* calls whose results are not inserted can return the same identifier.
C3_DistinctFromResident ==
    \A t, u \in Tasks :
        (t # u /\ src[t] = "issued" /\ src[u] = "issued" /\ id[u] \in seen[t])
            => id[t] # id[u]

\* Two issuances, the second begun with the first one's Record resident.
C3_Witness ==
    \E t, u \in Tasks :
        /\ t # u /\ src[t] = "issued" /\ src[u] = "issued"
        /\ id[u] \in seen[t] /\ id[t] # id[u]

\* C4: a failed exists() query ends the issuance in a panic; the candidate
\* is not returned and the task's handle is never bound.
C4_ExistsFailureIsFatal ==
    [][\A t \in Tasks :
         (pc[t] = "answered" /\ ans[t] = "err" /\ pc'[t] # pc[t])
            => /\ pc'[t] = "panicked"
               /\ id'[t] = NoId /\ src'[t] = "none"]_vars

\* An issuance has panicked on a failed query.
C4_Witness == \E t \in Tasks : pc[t] = "panicked" /\ id[t] = NoId

\* C5: each set stores its whole serialized value under the guard: the
\* string under a key on which the last call was a set is the serialization
\* of that set's value, and when two handles of one identifier have both
\* set the same key, it holds the value of one of the two.
C5_ConcurrentSetsLinearize ==
    \A i \in DOMAIN inner, k \in Keys :
        lastw[i][k].kind = "set" =>
            /\ MapGet(inner[i].data, k) = Some(SerializeOrEmpty(lastw[i][k].val))
            /\ \A t, u \in Tasks :
                  (t # u /\ id[t] = i /\ id[u] = i /\ did[t].key = k /\ did[u].key = k)
                     => inner[i].data[k] \in {SerializeOrEmpty(did[t].val),
                                              SerializeOrEmpty(did[u].val)}

\* A Record with a committed snapshot differs from it.
Diverged(i) == Fields(inner[i]) # snap[i]

\* C7 as stated: the dirty flag of a Record that has a committed snapshot is
\* set exactly when its fields differ from the snapshot.
C7_DirtyIffDiverged ==
    \A i \in DOMAIN snap : inner[i].update <=> Diverged(i)

\* C7 amended: a Record whose fields differ from its committed snapshot is
\* dirty.  The converse fails: clear marks a Record dirty whose data was
\* empty already.
C7_DivergedImpliesDirty ==
    \A i \in DOMAIN snap : Diverged(i) => inner[i].update

\* An operation has changed a committed Record.
C7_Witness ==
    \E i \in DOMAIN snap : Diverged(i) /\ inner[i].update /\ ret.id = i

\* C8: on a resident Record, set(k, v) whose serialized value is the string
\* stored under k leaves the Record as it is; any other set(k, v) stores
\* the serialized value under k and sets the dirty flag.
C8_SetNoOpOrDirty ==
    [][(OpStep("set") /\ ContainsKey(ret'.id)) =>
         LET i == ret'.id
             k == ret'.key
             value == SerializeOrEmpty(ret'.arg)
         IN IF MapGet(inner[i].data, k) = Some(value)
            THEN inner'[i] = inner[i]
            ELSE /\ MapGet(inner'[i].data, k) = Some(value)
                 /\ inner'[i].update]_vars

\* C9: on a resident Record, a get of k after remove(k) returns absent:
\* right after the remove, get's closure returns absent for k at every type.
C9_RemoveThenGetAbsent ==
    [][(OpStep("remove") /\ ContainsKey(ret'.id)) =>
          \A T \in Types : GetClosure(inner'[ret'.id], ret'.key, T) = None]_vars

\* C10: clear on a resident Record leaves its data map empty and its dirty
\* flag set, and while the last call on a key is that clear, get's closure
\* returns absent for the key at every type.
C10_ClearEmpties ==
    [][/\ (OpStep("clear") /\ ContainsKey(ret'.id)) =>
            /\ inner'[ret'.id].data = EmptyMap
            /\ inner'[ret'.id].update
       /\ \A i \in DOMAIN inner', k \in Keys :
            lastw'[i][k].kind = "clear" =>
                \A T \in Types : GetClosure(inner'[i], k, T) = None]_vars

\* The committed data of a Record held a key whose string deserializes; the
\* Record was cleared and is now empty and dirty.
C10_Witness ==
    /\ ret.op = "clear"
    /\ ret.id \in DOMAIN snap /\ ContainsKey(ret.id)
    /\ \E k \in DOMAIN snap[ret.id].data, T \in Types :
          /\ from_str(snap[ret.id].data[k], T) # None
          /\ lastw[ret.id][k].kind = "clear"
    /\ inner[ret.id].data = EmptyMap /\ inner[ret.id].update

\* C11 as stated: with a backend configured count returns the backend's row
\* count, and otherwise the number of resident Records.
C11_CountIsRowCount ==
    [][OpStep("count") =>
          ret'.res = Some(IF persistent THEN Cardinality(db')
                          ELSE Cardinality(DOMAIN inner'))]_vars

\* Task t's count() query is answered in this step.
CountAnswered(t) == pc[t] = "counting" /\ pc'[t] = "counted"

\* C11: with a backend configured count awaits the backend's count query
\* and returns what it answered, the row count at the time of the query,
\* or 0 when the query failed, whatever the in-memory store holds; without
\* a backend it makes no query and returns the number of resident Records.
C11_CountAnswerOrZero ==
    [][/\ \A t \in Tasks :
            /\ CountAnswered(t) =>
                  /\ persistent
                  /\ rows'[t] \in {None, Some(Cardinality(db))}
            /\ (pc[t] = "counted" /\ pc'[t] = "ready") =>
                  /\ OpStep("count") /\ ret'.id = id[t]
                  /\ ret'.arg \in {"backend", "backend-err"}
                  /\ ret'.arg = "backend" => ret'.res = Some(rows[t][1])
                  /\ ret'.arg = "backend-err" =>
                        rows[t] = None /\ ret'.res = Some(0)
       /\ OpStep("count") =>
            IF persistent
            THEN \E t \in Tasks : pc[t] = "counted" /\ pc'[t] = "ready"
            ELSE /\ ret'.arg = "memory"
                 /\ ret'.res = Some(Cardinality(DOMAIN inner))]_vars

\* count answered from a backend whose row count differs from the number of
\* resident Records.
C11_Witness ==
    /\ ret.op = "count" /\ persistent /\ ret.arg = "backend"
    /\ ret.res = Some(Cardinality(db))
    /\ Cardinality(DOMAIN inner) # Cardinality(db)

\* This step is one of task t's generate_uuid call: the call moves on from
\* drawing a candidate, from a passed test, from awaiting exists, or from
\* its answer.
IssuerStep(t) ==
    pc[t] \in {"gen", "passed", "exists", "answered"} /\ pc'[t] # pc[t]

\* This step is generate_uuid's return to new in task t.
IssuerReturn(t) == IssuerStep(t) /\ pc'[t] = "ready"

\* C13 as stated: no step of a generate_uuid call changes the in-memory
\* store or the backend, and the identifier it returns is not resident in
\* the in-memory store when it is returned.
C13_IssuedNotResident ==
    [][\A t \in Tasks :
          /\ IssuerStep(t) => inner' = inner /\ db' = db
          /\ IssuerReturn(t) => ~(id'[t] \in DOMAIN inner')]_vars

\* C13: no step of a generate_uuid call, retrying or not, changes the
\* in-memory store or the backend; the identifier it returns was not
\* resident when the call tested it, so it is resident at the return only
\* when another request inserted it after the test.
C13_IssuanceFrame ==
    [][\A t \in Tasks :
          /\ IssuerStep(t) => inner' = inner /\ db' = db
          /\ IssuerReturn(t) =>
                /\ ~(id'[t] \in seen'[t])
                /\ (id'[t] \in DOMAIN inner') = (id'[t] \in DOMAIN inner)]_vars

\* A generate_uuid call has returned an identifier while another identifier
\* was resident (a candidate it had to skip), and the returned identifier is
\* neither resident nor stored.
C13_Witness ==
    \E t \in Tasks :
        /\ src[t] = "issued" /\ pc[t] = "ready"
        /\ DOMAIN inner # {}
        /\ ~ContainsKey(id[t]) /\ ~(id[t] \in db)

\* The flags of a Record other than the dirty flag, and its identifier.
OtherFlags(r) == <<r.id, r.renew, r.destroy, r.longterm, r.storable>>

\* C15: remove(k) on a resident Record sets the dirty flag whether or not
\* the data held k, deletes k, and leaves every other key, the identifier
\* and the other flags as they were.
C15_RemoveAlwaysDirty ==
    [][(OpStep("remove") /\ ContainsKey(ret'.id)) =>
          /\ inner'[ret'.id].update
          /\ DOMAIN inner'[ret'.id].data = DOMAIN inner[ret'.id].data \ {ret'.key}
          /\ \A k \in DOMAIN inner'[ret'.id].data :
                inner'[ret'.id].data[k] = inner[ret'.id].data[k]
          /\ OtherFlags(inner'[ret'.id]) = OtherFlags(inner[ret'.id])]_vars

\* Records r and q agree on every field but the dirty flag and those in fs.
SameBut(r, q, fs) ==
    \A f \in {"id", "data", "renew", "destroy", "longterm", "storable"} \ fs :
        r[f] = q[f]

\* This step is the setter op on a resident Record; it leaves flag f at b.
SetterSets(op, f, b) ==
    (OpStep(op) /\ ContainsKey(ret'.id)) =>
        /\ inner'[ret'.id][f] = b
        /\ inner'[ret'.id].update
        /\ SameBut(inner'[ret'.id], inner[ret'.id], {f})
        /\ DOMAIN inner' = DOMAIN inner

\* C16: on a resident Record renew sets renew and the dirty flag, destroy
\* sets destroy and the dirty flag, set_longterm(b) sets longterm to b and
\* the dirty flag, set_store(b) sets storable to b and the dirty flag; the
\* identifier, the data, the other flags and the set of resident
\* identifiers stay as they were.
C16_SettersSetOwnFlag ==
    [][/\ SetterSets("renew", "renew", TRUE)
       /\ SetterSets("destroy", "destroy", TRUE)
       /\ SetterSets("set_longterm", "longterm", ret'.arg = "true")
       /\ SetterSets("set_store", "storable", ret'.arg = "true")]_vars

\* C18: no handle operation (set, remove, clear, renew, destroy,
\* set_longterm, set_store, count; get and get_remove take no step) adds or
\* removes an entry of the in-memory store or changes the Record of an
\* identifier other than the handle's own; every resident identifier keeps
\* mapping to the Record that carries it.
C18_OpsKeepResidency ==
    [][nops' = nops + 1 =>
          /\ DOMAIN inner' = DOMAIN inner
          /\ \A j \in DOMAIN inner \ {ret'.id} : inner'[j] = inner[j]
          /\ \A j \in DOMAIN inner' : inner'[j].id = j]_vars

\* Two Records are resident; a clear on a handle of the one, which was
\* loaded from its row, has emptied it and marked it dirty, and the other is
\* as it was made resident.
C18_Witness ==
    /\ ret.op = "clear"
    /\ \E i, j \in DOMAIN inner :
          /\ i # j /\ ret.id = i
          /\ inner[i] = ClearBody(LoadedRecord(i))
          /\ inner[i] # LoadedRecord(i)
          /\ inner[j] \in {NewRecord(j), LoadedRecord(j)}

\* This step is the start of AxumSession::new in task t.
NewStep(t) == pc[t] = "idle" /\ pc'[t] # "idle"

\* C19: when the request's cookie parses as an identifier, new binds the
\* handle to exactly that identifier without invoking generate_uuid and
\* without looking for its Record; when the cookie is missing or does not
\* parse, new invokes generate_uuid and binds the handle to the identifier
\* it returns; no step of the construction changes the in-memory store.
C19_NewResolvesIdentifier ==
    [][\A t \in Tasks :
          /\ NewStep(t) =>
                /\ inner' = inner
                /\ IF cookie'[t] \in IDs
                   THEN /\ pc'[t] = "ready"
                        /\ src'[t] = "cookie"
                        /\ id'[t] = cookie'[t]
                   ELSE pc'[t] = "gen"
          /\ IssuerStep(t) => inner' = inner /\ ~(cookie[t] \in IDs)
          /\ IssuerReturn(t) =>
                /\ src'[t] = "issued"
                /\ id'[t] \in IDs]_vars

\* One handle is bound to its cookie's identifier, of which there is neither
\* a resident Record nor a row, and another, whose cookie did not parse, to
\* an issued identifier.
C19_Witness ==
    \E t, u \in Tasks :
        /\ pc[t] = "ready" /\ src[t] = "cookie" /\ id[t] = cookie[t]
        /\ ~ContainsKey(id[t]) /\ ~(id[t] \in db)
        /\ pc[u] = "ready" /\ src[u] = "issued" /\ cookie[u] = "garbage"

\* No candidate is free: each is resident or, with a backend, has a row.
AllTaken == \A i \in IDs : ContainsKey(i) \/ (persistent /\ i \in db)

\* C20: under fair candidate generation, with every exists() query answered,
\* a generate_uuid call that is drawing candidates eventually returns (or
\* ends in the panic of a failed query) unless every candidate has come to
\* be taken; only then can it draw for ever.
C20_IssuanceTerminates ==
    \A t \in Tasks :
        (pc[t] = "gen") ~> (pc[t] \in {"ready", "panicked"} \/ AllTaken)

\* With a backend whose table holds the row of one of the two candidates, a
\* generate_uuid call has returned the other.
C20_Witness ==
    \E t \in Tasks :
        /\ persistent /\ src[t] = "issued" /\ pc[t] = "ready"
        /\ ~(id[t] \in db)
        /\ \E i \in IDs \ {id[t]} : i \in db

====
